---- MODULE Spec2Model ----
(***************************************************************************)
(* FedPara baseline (baselines/fedpara): the non-IID Dirichlet partitioner  *)
(* of dataset.py, the rank calculator and factorized layers of models.py    *)
(* and the Flower clients of client.py, as state machines.                  *)
(*                                                                          *)
(* Each subsystem has its own specification over the shared variables; the  *)
(* variables of the other subsystems stay at their idle values.             *)
(***************************************************************************)
EXTENDS Integers, Sequences, FiniteSets, TLC

(***************************************************************************)
(* Bounds of the model.                                                     *)
(***************************************************************************)
\* longest label array handed to _get_dirichlet_data
MaxN == 3
\* largest number of clients (n)
MaxClients == 2
\* largest number of classes (num_c)
MaxClasses == 2
\* a Dirichlet row is drawn on the grid of multiples of 1/Grid
Grid == 1
\* largest dim_in / dim_out / in_channels / out_channels of a layer
MaxDim == 6
\* largest kernel_size of a convolution
MaxKernel == 3
\* number of simulated clients
NumClients == 2
\* a tensor of the state_dict takes a value in 0..MaxVal
MaxVal == 1
\* number of consecutive runs of load_datasets over one data directory
MaxRuns == 2
\* number of different outcomes of the random partitioner
MaxPartitions == 2
\* largest dimension of a layer whose factors are counted
MaxCountDim == 30

VARIABLES
    \* ---- dataset.py: _get_dirichlet_data
    y,                \* labelList_true: the label of sample i is y[i+1]
    n_nets,           \* n, the number of clients
    K,                \* num_c, the number of classes
    partition_equal,  \* the mode flag
    p_client,         \* p_client[i][c], in units of 1/Grid
    idx_batch,        \* idx_batch[j]: the index list of client j
    idx_counter,      \* idx_counter[c]: samples of class c handed out
    total_cnt,        \* assignments started in constrained mode
    curr_clnt,        \* the client picked by the outer loop
    k,                \* the class loop of unconstrained mode
    pc,               \* position in _get_dirichlet_data
    \* ---- models.py: Linear / Conv2d
    layer,            \* "Linear" or "Conv2d"
    in_channels,      \* input (Linear), in_channels (Conv2d)
    out_channels,     \* output (Linear), out_channels (Conv2d)
    kernel_size,      \* kernel_size (Conv2d)
    ratio,            \* the compression ratio, a double
    low_rank,         \* rank (Linear), self.low_rank (Conv2d)
    W1,               \* the shapes of the parameters of w1 / W1
    weight,           \* the shape of the weight reconstructed by w1() / W1()
    lpc,              \* position in the life of the layer
    \* ---- models.py: FC / VGG
    arch,             \* "FC" or "VGG"
    input_size,       \* FC arguments
    hidden_size,
    num_classes,
    model_ratio,      \* ratio
    param_type,       \* FC
    conv_type,        \* VGG
    activation,
    method,           \* the attribute per_param reads; no class sets it
    modules,          \* fc1, fc2 (FC) or the convolutions of features (VGG)
    per_result,       \* the outcome of reading per_param
    mpc,              \* position in the life of the model
    \* ---- client.py
    algorithm,        \* args['algorithm']
    server_params,    \* the parameters the aggregator pushes
    client,           \* client[cid]: the class client_fn built, or "none"
    net,              \* net[cid]: the state_dict of the client's net
    sent,             \* sent[cid]: the parameters fit returned last
    local_end,        \* net[cid] as it was when the client's last fit ended
    last_call,        \* last_call[cid]: how the last call on cid ended
    \* ---- dataset.py: load_datasets
    files,            \* files[path]: the partition pickled at path, 0: no file
    config_name,      \* config.name of the last call
    num_clients,      \* num_clients of the last call
    config_alpha,     \* config.alpha of the last call, in thousandths
    train_datasets,   \* the partition the last call worked with, 0: none
    runs,             \* calls of load_datasets so far
    ldpc              \* how the last call ended

partVars == <<y, n_nets, K, partition_equal, p_client, idx_batch,
              idx_counter, total_cnt, curr_clnt, k, pc>>

layerVars == <<layer, in_channels, out_channels, kernel_size, ratio,
               low_rank, W1, weight, lpc>>

modelVars == <<arch, input_size, hidden_size, num_classes, model_ratio,
               param_type, conv_type, activation, method, modules,
               per_result, mpc>>

clientVars == <<algorithm, server_params, client, net, sent, local_end,
                last_call>>

loadVars == <<files, config_name, num_clients, config_alpha, train_datasets,
              runs, ldpc>>

vars == <<partVars, layerVars, modelVars, clientVars, loadVars>>

\* what a step of one subsystem leaves alone
notPartVars == <<layerVars, modelVars, clientVars, loadVars>>

notLayerVars == <<partVars, modelVars, clientVars, loadVars>>

notModelVars == <<partVars, layerVars, clientVars, loadVars>>

notClientVars == <<partVars, layerVars, modelVars, loadVars>>

notLoadVars == <<partVars, layerVars, modelVars, clientVars>>

(***************************************************************************)
(* Python / numpy helpers.                                                  *)
(***************************************************************************)
Range0(cnt) == 0..(cnt - 1)

Min2(a, b) == IF a <= b THEN a ELSE b

Max2(a, b) == IF a >= b THEN a ELSE b

RECURSIVE SumTo(_, _)
\* f[0] + ... + f[j]
SumTo(f, j) == IF j < 0 THEN 0 ELSE f[j] + SumTo(f, j - 1)

\* np.where(labelList_true == c)[0]: the 0-based indices of class c, ascending
Where(labels, c) ==
    SelectSeq([i \in 1..Len(labels) |-> i - 1], LAMBDA i : labels[i + 1] = c)

\* np.random.shuffle: every permutation of s is a possible outcome
Shuffle(s) ==
    {[i \in 1..Len(s) |-> s[f[i]]] : f \in Permutations(1..Len(s))}

RECURSIVE ShuffleEach(_, _)
\* lines 79-81: np.random.shuffle on each of the lists b[0], ..., b[j]
ShuffleEach(b, j) ==
    IF j < 0 THEN {<<>>}
    ELSE {g @@ (j :> s) : g \in ShuffleEach(b, j - 1), s \in Shuffle(b[j])}

\* Python's a[st:end]: negative positions count from the end, all are clipped
PySlice(a, st, end) ==
    LET norm(i) == IF i < 0 THEN Max2(i + Len(a), 0) ELSE Min2(i, Len(a))
    IN  SubSeq(a, norm(st) + 1, norm(end))

\* a split whose parts all start at the front of the array
NpSplitFromFront(ary, indices) ==
    LET div_points == <<0>> \o indices \o <<Len(ary)>>
    IN  [j \in 1..(Len(indices) + 1) |-> PySlice(ary, 0, div_points[j + 1])]

\* a split that stops one short of the end of the array
NpSplitShortTail(ary, indices) ==
    LET div_points == <<0>> \o indices \o <<Len(ary) - 1>>
    IN  [j \in 1..(Len(indices) + 1) |->
            PySlice(ary, div_points[j], Max2(div_points[j + 1], 0))]

\* np.split(ary, indices): ary[0:i1], ary[i1:i2], ..., ary[ilast:]
NpSplit(ary, indices) ==
    LET div_points == <<0>> \o indices \o <<Len(ary)>>
    IN  [j \in 1..(Len(indices) + 1) |->
            PySlice(ary, div_points[j], div_points[j + 1])]

\* NaN.astype(int): INT_MIN on x86-64, 0 on AArch64; as a slice position
\* every value <= -len behaves like INT_MIN
NaNAsInt(len) == {0, -(len + 1)}

\* (cum * len).astype(int) for cum = c/s >= 0: truncation of the product. The
\* double product of an exactly integral c*len/s may land just below the
\* integer (low = TRUE) and then truncates to one less.
AsTypeInt(c, s, len, low) ==
    IF low /\ c > 0 /\ (c * len) % s = 0 /\ c * len > 0
    THEN (c * len) \div s - 1
    ELSE (c * len) \div s

\* lines 50-52: the split positions of class c for n clients
Proportions(p, c, cnt, len, low, nan) ==
    LET col == [i \in Range0(cnt) |-> p[i][c]]
        s   == SumTo(col, cnt - 1)
    IN  [j \in 1..(cnt - 1) |->
            IF s = 0 THEN nan ELSE AsTypeInt(SumTo(col, j - 1), s, len, low)]

\* np.random.dirichlet(np.repeat(alpha, K)): a row of K weights summing to 1
DirichletRows(cls) ==
    {r \in [Range0(cls) -> 0..Grid] : SumTo(r, cls - 1) = Grid}

\* np.cumsum(p_client, axis=1)[i]
CdfRow(p, i) == [c \in DOMAIN p[i] |-> SumTo(p[i], c)]

\* np.random.uniform() in [0,1): 0.0 and the midpoints of the grid cells, in
\* units of 1/(2*Grid)
UniformDraws == {0} \cup {2 * j - 1 : j \in 1..Grid}

\* np.argmax(u <= curr_prior): the first class whose cdf is >= u, and 0 when
\* no entry is
ArgmaxLeq(u, cdf) ==
    LET hits == {c \in DOMAIN cdf : u <= 2 * cdf[c]}
    IN  IF hits = {} THEN 0 ELSE CHOOSE c \in hits : \A d \in hits : c <= d

\* m = int(N / n)
QuotaM == Len(y) \div n_nets

(***************************************************************************)
(* _get_dirichlet_data                                                      *)
(***************************************************************************)
LayerIdle ==
    /\ layer = "none" /\ in_channels = 0 /\ out_channels = 0
    /\ kernel_size = 0 /\ ratio = <<>> /\ low_rank = 0
    /\ W1 = <<>> /\ weight = <<>> /\ lpc = "idle"

ClientIdle ==
    /\ algorithm = "" /\ server_params = <<>> /\ client = <<>>
    /\ net = <<>> /\ sent = <<>> /\ local_end = <<>> /\ last_call = <<>>

ModelIdle ==
    /\ arch = "none" /\ input_size = 0 /\ hidden_size = 0 /\ num_classes = 0
    /\ model_ratio = <<>> /\ param_type = "" /\ conv_type = ""
    /\ activation = "" /\ method = "" /\ modules = <<>>
    /\ per_result = "" /\ mpc = "idle"

LoadIdle ==
    /\ files = <<>> /\ config_name = "" /\ num_clients = 0
    /\ config_alpha = 0 /\ train_datasets = 0 /\ runs = 0 /\ ldpc = "idle"

PartitionIdle ==
    /\ y = <<>> /\ n_nets = 0 /\ K = 0 /\ partition_equal = FALSE
    /\ p_client = <<>> /\ idx_batch = <<>> /\ idx_counter = <<>>
    /\ total_cnt = 0 /\ curr_clnt = 0 /\ k = 0 /\ pc = "idle"

\* the call: labels in [0, num_c), num_clients > 0
PartitionInit ==
    /\ K \in 1..MaxClasses
    /\ y \in UNION {[1..len -> Range0(K)] : len \in 1..MaxN}
    /\ n_nets \in 1..MaxClients
    /\ partition_equal \in BOOLEAN
    /\ p_client = <<>> /\ idx_batch = <<>> /\ idx_counter = <<>>
    /\ total_cnt = 0 /\ curr_clnt = 0 /\ k = 0
    /\ pc = "start"
    /\ LayerIdle /\ ModelIdle /\ ClientIdle /\ LoadIdle

\* lines 39-44 and, in constrained mode, 58-61
DrawPriors ==
    /\ pc = "start"
    /\ p_client' \in [Range0(n_nets) -> DirichletRows(K)]
    /\ idx_batch' = [j \in Range0(n_nets) |-> <<>>]
    /\ idx_counter' = [c \in Range0(K) |-> 0]
    /\ total_cnt' = 0
    /\ k' = 0
    /\ pc' = IF partition_equal THEN "outer" ELSE "split"
    /\ UNCHANGED <<y, n_nets, K, partition_equal, curr_clnt>>
    /\ UNCHANGED notPartVars

\* lines 47-56: one pass of the class loop of unconstrained mode
SplitClass ==
    /\ pc = "split"
    /\ \E idx_k \in Shuffle(Where(y, k)), low \in BOOLEAN,
          nan \in NaNAsInt(Len(Where(y, k))) :
          LET proportions ==
                  Proportions(p_client, k, n_nets, Len(idx_k), low, nan)
              parts == NpSplit(idx_k, proportions)
          IN  idx_batch' = [j \in Range0(n_nets) |->
                               idx_batch[j] \o parts[j + 1]]
    /\ k' = k + 1
    /\ pc' = IF k + 1 < K THEN "split" ELSE "shuffle"
    /\ UNCHANGED <<y, n_nets, K, partition_equal, p_client, idx_counter,
                   total_cnt, curr_clnt>>
    /\ UNCHANGED notPartVars

\* the client pick without the test that the client is full
PickClientNoQuotaTest ==
    /\ pc = "outer"
    /\ IF total_cnt < QuotaM * n_nets
       THEN \E c \in Range0(n_nets) :
               /\ total_cnt' = total_cnt + 1
               /\ curr_clnt' = c
               /\ pc' = "inner"
       ELSE /\ pc' = "shuffle"
            /\ UNCHANGED <<total_cnt, curr_clnt>>
    /\ UNCHANGED <<y, n_nets, K, partition_equal, p_client, idx_batch,
                   idx_counter, k>>
    /\ UNCHANGED notPartVars

\* lines 63-68: the loop test and one client pick of constrained mode
PickClient ==
    /\ pc = "outer"
    /\ IF total_cnt < QuotaM * n_nets
       THEN \E c \in Range0(n_nets) :
               IF Len(idx_batch[c]) >= QuotaM
               THEN UNCHANGED <<total_cnt, curr_clnt, pc>>
               ELSE /\ total_cnt' = total_cnt + 1
                    /\ curr_clnt' = c
                    /\ pc' = "inner"
       ELSE /\ pc' = "shuffle"
            /\ UNCHANGED <<total_cnt, curr_clnt>>
    /\ UNCHANGED <<y, n_nets, K, partition_equal, p_client, idx_batch,
                   idx_counter, k>>
    /\ UNCHANGED notPartVars

\* one pass of the retry loop that hands a sample out without counting it
DrawClassNoCount ==
    /\ pc = "inner"
    /\ \E u \in UniformDraws :
          LET curr_prior == CdfRow(p_client, curr_clnt)
              cls_label  == ArgmaxLeq(u, curr_prior)
              idx_labels == Where(y, cls_label)
          IN  IF idx_counter[cls_label] >= Len(idx_labels)
              THEN UNCHANGED <<idx_batch, idx_counter, pc>>
              ELSE /\ idx_batch' =
                         [idx_batch EXCEPT ![curr_clnt] =
                             Append(@, idx_labels[idx_counter[cls_label] + 1])]
                   /\ UNCHANGED idx_counter
                   /\ pc' = "outer"
    /\ UNCHANGED <<y, n_nets, K, partition_equal, p_client, total_cnt,
                   curr_clnt, k>>
    /\ UNCHANGED notPartVars

\* lines 69-77: one pass of the retry loop
DrawClass ==
    /\ pc = "inner"
    /\ \E u \in UniformDraws :
          LET curr_prior == CdfRow(p_client, curr_clnt)
              cls_label  == ArgmaxLeq(u, curr_prior)
              idx_labels == Where(y, cls_label)
          IN  IF idx_counter[cls_label] >= Len(idx_labels)
              THEN UNCHANGED <<idx_batch, idx_counter, pc>>
              ELSE /\ idx_batch' =
                         [idx_batch EXCEPT ![curr_clnt] =
                             Append(@, idx_labels[idx_counter[cls_label] + 1])]
                   /\ idx_counter' =
                         [idx_counter EXCEPT ![cls_label] = @ + 1]
                   /\ pc' = "outer"
    /\ UNCHANGED <<y, n_nets, K, partition_equal, p_client, total_cnt,
                   curr_clnt, k>>
    /\ UNCHANGED notPartVars

\* lines 79-96: the final shuffle of every client's list, and the return
ShuffleAndReturn ==
    /\ pc = "shuffle"
    /\ idx_batch' \in ShuffleEach(idx_batch, n_nets - 1)
    /\ pc' = "done"
    /\ UNCHANGED <<y, n_nets, K, partition_equal, p_client, idx_counter,
                   total_cnt, curr_clnt, k>>
    /\ UNCHANGED notPartVars

PartitionNext ==
    \/ DrawPriors
    \/ SplitClass
    \/ PickClient
    \/ DrawClass
    \/ ShuffleAndReturn

SpecPartition == PartitionInit /\ [][PartitionNext]_vars

(***************************************************************************)
(* Properties of _get_dirichlet_data                                        *)
(***************************************************************************)
\* the places (client, position) of the returned lists
Places == {pl \in Range0(n_nets) \X (1..Len(y)) :
              pl[2] <= Len(idx_batch[pl[1]])}

\* the sample indices some client holds
Assigned == {idx_batch[pl[1]][pl[2]] : pl \in Places}

RECURSIVE SumLen(_, _)
\* len(idx_batch[0]) + ... + len(idx_batch[j])
SumLen(b, j) == IF j < 0 THEN 0 ELSE Len(b[j]) + SumLen(b, j - 1)

\* C1: in both modes the returned index lists are duplicate-free and pairwise
\* disjoint: no sample index stands at two places of the result.
C1_NoDuplicateIndex ==
    pc = "done" =>
        \A p1 \in Places, p2 \in Places :
            p1 # p2 => idx_batch[p1[1]][p1[2]] # idx_batch[p2[1]][p2[2]]

\* two clients were handed samples, one of them at least two
C1_Witness ==
    /\ pc = "done" /\ ~partition_equal /\ n_nets = 2
    /\ Len(idx_batch[0]) >= 2 /\ Len(idx_batch[1]) >= 1

\* C2: unconstrained mode hands out every sample: the union of the returned
\* lists is 0..N-1 and their lengths sum to N.
C2_UnconstrainedCoversAll ==
    (pc = "done" /\ ~partition_equal) =>
        /\ Assigned = Range0(Len(y))
        /\ SumLen(idx_batch, n_nets - 1) = Len(y)

\* a class was split between two clients at a truncated boundary
C2_Witness ==
    /\ pc = "done" /\ ~partition_equal /\ n_nets = 2 /\ Len(y) = 3
    /\ \A i \in 1..Len(y) : y[i] = 0
    /\ p_client[0][0] = 1 /\ p_client[1][0] = 1
    /\ Len(idx_batch[0]) = 1 /\ Len(idx_batch[1]) = 2

\* C3: constrained mode returns exactly floor(N/n) indices per client and
\* leaves N - n*floor(N/n) samples unassigned.
C3_ConstrainedEqualQuota ==
    (pc = "done" /\ partition_equal) =>
        /\ \A j \in Range0(n_nets) : Len(idx_batch[j]) = Len(y) \div n_nets
        /\ Cardinality(Range0(Len(y)) \ Assigned) =
               Len(y) - n_nets * (Len(y) \div n_nets)

\* two clients reached a quota of one and one sample was left over
C3_Witness ==
    /\ pc = "done" /\ partition_equal /\ n_nets = 2 /\ Len(y) = 3
    /\ Len(idx_batch[0]) = 1 /\ Len(idx_batch[1]) = 1

\* C4: constrained mode never spins: until the partitioner has returned (or
\* raised its fatal error, a state the code does not have) some step of it
\* still changes its state.
C4_RetryLoopGuarded ==
    (partition_equal /\ pc # "done") => ENABLED <<PartitionNext>>_vars

\* the assignment loop of constrained mode is running or has ended
InConstrainedLoop == partition_equal /\ pc \in {"outer", "inner", "shuffle"}

\* the samples of class c that some client holds
AssignedOfClass(c) == {i \in Assigned : y[i + 1] = c}

\* C15: in every state of the assignment loop of constrained mode, the
\* samples of class c handed out are the first idx_counter[c] entries of the
\* index list of c, idx_counter[c] does not pass the end of that list, and no
\* client holds more than floor(N/n) indices.
C15_ConstrainedLoopInvariant ==
    InConstrainedLoop =>
        /\ \A c \in Range0(K) :
              /\ idx_counter[c] <= Len(Where(y, c))
              /\ AssignedOfClass(c) =
                     {Where(y, c)[i] : i \in 1..idx_counter[c]}
        /\ \A j \in Range0(n_nets) : Len(idx_batch[j]) <= QuotaM

\* back at the loop test after two clients were handed a sample each, of
\* two different classes, one class with a sample still unused
C15_Witness ==
    /\ partition_equal /\ pc = "outer" /\ n_nets = 2 /\ Len(y) = 3
    /\ total_cnt = 2
    /\ idx_counter[0] = 1 /\ idx_counter[1] = 1
    /\ Len(idx_batch[0]) = 1 /\ Len(idx_batch[1]) = 1

(***************************************************************************)
(* load_datasets and _split_dataset: consecutive runs over one data         *)
(* directory.  A partition is named by the outcome of the random            *)
(* partitioner that made it.                                                *)
(***************************************************************************)
\* config.name as the callers give it
DatasetNames == {"CIFAR10", "CIFAR100", "MNIST"}

\* config.alpha in thousandths; none lies half way between two hundredths
Alphas == {1, 4, 500}

\* config.name.lower()
Lower(name) ==
    CASE name = "CIFAR10"  -> "cifar10"
      [] name = "CIFAR100" -> "cifar100"
      [] OTHER             -> "mnist"

\* f"{config.alpha:.2f}": the nearest hundredth
Format2f(alpha) == (alpha + 5) \div 10

\* ds_path = f"{data_directory}train_{num_clients}_{config.alpha:.2f}.pkl"
DsPath(name, clients, alpha) == <<Lower(name), clients, Format2f(alpha)>>

\* every path a call can form
DsPaths ==
    {DsPath(name, c, a) : name \in {"CIFAR10", "CIFAR100"},
                          c \in 1..MaxClients, a \in Alphas}

\* an empty data directory, before the first run
LoadInit ==
    /\ files = [p \in DsPaths |-> 0]
    /\ config_name = "" /\ num_clients = 0 /\ config_alpha = 0
    /\ train_datasets = 0 /\ runs = 0 /\ ldpc = "idle"
    /\ PartitionIdle /\ LayerIdle /\ ModelIdle /\ ClientIdle

\* _split_dataset(train_dataset, num_clients, alpha, num_classes, save_path):
\* partitions afresh and pickles the result to save_path
SplitDataset(save_path, part) ==
    /\ files' = [files EXCEPT ![save_path] = part]
    /\ train_datasets' = part

\* one run of load_datasets(config, num_clients, batch_size)
LoadDatasets ==
    /\ runs < MaxRuns
    /\ \E name \in DatasetNames, c \in 1..MaxClients, a \in Alphas :
          /\ config_name' = name
          /\ num_clients' = c
          /\ config_alpha' = a
          /\ IF name \notin {"CIFAR10", "CIFAR100"}
             THEN /\ ldpc' = "NotImplementedError"
                  /\ train_datasets' = 0
                  /\ UNCHANGED files
             ELSE /\ \E part \in 1..MaxPartitions :
                        SplitDataset(DsPath(name, c, a), part)
                  /\ ldpc' = "returned"
    /\ runs' = runs + 1
    /\ UNCHANGED notLoadVars

LoadNext == LoadDatasets

SpecLoad == LoadInit /\ [][LoadNext]_vars

\* the path of the call that a step makes
StepPath == DsPath(config_name', num_clients', config_alpha')

\* C11: a run that finds the partition file of its key reads it: the file
\* is not overwritten and the run works with the partition the file holds;
\* only a run that finds no file writes one.
C11_PersistedPartitionReused ==
    [][(ldpc' = "returned" /\ runs' = runs + 1 /\ files[StepPath] # 0) =>
           /\ files' = files
           /\ train_datasets' = files[StepPath]]_vars

(***************************************************************************)
(* Python floats (IEEE-754 binary64) as far as _calc_from_ratio uses them.  *)
(* A value is held exactly, as the integer value * 2^(FracLimbs*LimbBits)   *)
(* written in NumLimbs limbs of LimbBits bits, least significant first.     *)
(* Every operation computes the exact result and rounds it to the nearest   *)
(* double (ties to even), as the hardware does.                             *)
(***************************************************************************)
\* significand bits of a double
DoubleMantissa == 53
\* bits of one limb
LimbBits == 20
\* limbs of a value
NumLimbs == 4
\* limbs after the binary point
FracLimbs == 3

LimbBase == 2 ^ LimbBits

RECURSIVE FixAddFrom(_, _, _, _)
\* the limbs i.. of a + b with carry c into limb i
FixAddFrom(a, b, i, c) ==
    IF i > NumLimbs THEN <<>>
    ELSE <<(a[i] + b[i] + c) % LimbBase>>
            \o FixAddFrom(a, b, i + 1, (a[i] + b[i] + c) \div LimbBase)

\* a + b, exact
FixAdd(a, b) == FixAddFrom(a, b, 1, 0)

RECURSIVE FixSubFrom(_, _, _, _)
\* the limbs i.. of a - b with borrow c from limb i
FixSubFrom(a, b, i, c) ==
    IF i > NumLimbs THEN <<>>
    ELSE <<(a[i] - b[i] - c + LimbBase) % LimbBase>>
            \o FixSubFrom(a, b, i + 1, IF a[i] - b[i] - c < 0 THEN 1 ELSE 0)

\* a - b for a >= b, exact
FixSub(a, b) == FixSubFrom(a, b, 1, 0)

RECURSIVE FixMulFrom(_, _, _, _)
\* the limbs i.. of a * v with carry c into limb i
FixMulFrom(a, v, i, c) ==
    IF i > NumLimbs THEN <<>>
    ELSE <<(a[i] * v + c) % LimbBase>>
            \o FixMulFrom(a, v, i + 1, (a[i] * v + c) \div LimbBase)

\* a * v for an integer 0 <= v < 2^10, exact
FixMul(a, v) == FixMulFrom(a, v, 1, 0)

\* a <= b
FixLeq(a, b) ==
    \/ a = b
    \/ \E i \in 1..NumLimbs :
          /\ a[i] < b[i]
          /\ \A j \in (i + 1)..NumLimbs : a[j] = b[j]

\* the number of bits of a limb
BitLength(x) == CHOOSE len \in 0..LimbBits : x < 2 ^ len /\ (len = 0 \/ x >= 2 ^ (len - 1))

\* bit i (from 1) of a
FixBit(a, i) == (a[((i - 1) \div LimbBits) + 1] \div 2 ^ ((i - 1) % LimbBits)) % 2

\* the lowest cnt bits of a
FixLowBits(a, cnt) ==
    [j \in 1..NumLimbs |->
        IF LimbBits * j <= cnt THEN a[j]
        ELSE IF LimbBits * (j - 1) >= cnt THEN 0
        ELSE a[j] % 2 ^ (cnt - LimbBits * (j - 1))]

\* the exact value a rounded to the nearest double, ties to even
RoundToDouble(a) ==
    LET used == {j \in 1..NumLimbs : a[j] # 0}
        top  == IF used = {} THEN 0
                ELSE CHOOSE j \in used : \A l \in used : l <= j
        msb  == IF top = 0 THEN 0 ELSE LimbBits * (top - 1) + BitLength(a[top])
        drop == msb - DoubleMantissa
    IN  IF drop <= 0 THEN a
        ELSE LET low    == FixLowBits(a, drop)
                 kept   == [j \in 1..NumLimbs |-> a[j] - low[j]]
                 sticky == \E j \in 1..NumLimbs : FixLowBits(a, drop - 1)[j] # 0
                 up     == FixBit(a, drop) = 1
                              /\ (sticky \/ FixBit(a, drop + 1) = 1)
                 ulp    == [j \in 1..NumLimbs |->
                               IF j = (drop \div LimbBits) + 1
                               THEN 2 ^ (drop % LimbBits) ELSE 0]
             IN  IF up THEN FixAdd(kept, ulp) ELSE kept

\* math.ceil(a)
FixCeil(a) ==
    a[NumLimbs] + (IF \E j \in 1..FracLimbs : a[j] # 0 THEN 1 ELSE 0)

\* the float operations of line 67 / 223
FloatSub(a, b) == RoundToDouble(FixSub(a, b))

FloatAdd(a, b) == RoundToDouble(FixAdd(a, b))

FloatMulInt(a, v) == RoundToDouble(FixMul(a, v))

\* the doubles written 0.0, 0.1, 0.2, 0.25, 0.4, 0.5, 0.75 and 1.0
Ratio00 == <<0, 0, 0, 0>>

Ratio01 == <<629152, 629145, 104857, 0>>

Ratio02 == <<209728, 209715, 209715, 0>>

Ratio025 == <<0, 0, 262144, 0>>

Ratio04 == <<419456, 419430, 419430, 0>>

Ratio05 == <<0, 0, 524288, 0>>

Ratio075 == <<0, 0, 786432, 0>>

Ratio10 == <<0, 0, 0, 1>>

\* the ratios a layer is built with, all in [0,1]
Ratios == {Ratio00, Ratio01, Ratio02, Ratio025, Ratio04, Ratio05, Ratio075,
           Ratio10}

(***************************************************************************)
(* _calc_from_ratio                                                         *)
(***************************************************************************)
\* int(np.ceil(np.sqrt(v)))
CeilSqrt(v) == CHOOSE r \in 0..v : r * r >= v /\ (r = 0 \/ (r - 1) * (r - 1) < v)

\* the larger of r1 and r2 taken for r
MinRankOfMax(dim_in, dim_out) == Max2(CeilSqrt(dim_out), CeilSqrt(dim_in))

\* r = np.min((r1, r2))
MinRank(dim_in, dim_out) == Min2(CeilSqrt(dim_out), CeilSqrt(dim_in))

\* discriminant = b**2 - 4*a*c with c = -num_target_params/2
Discriminant(a, b, num_target_params) == b * b + 2 * a * num_target_params

\* the root taken with math.ceil: the smallest t with (2*a*t + b)^2 >=
\* discriminant
LargerRootCeil(a, b, num_target_params) ==
    LET d == Discriminant(a, b, num_target_params)
    IN  CHOOSE t \in 0..(num_target_params + 1) :
            /\ (2 * a * t + b) * (2 * a * t + b) >= d
            /\ (t = 0 \/ (2 * a * (t - 1) + b) * (2 * a * (t - 1) + b) < d)

\* math.floor((-b + math.sqrt(discriminant)) / (2*a)): the largest t with
\* (2*a*t + b)^2 <= discriminant. sqrt and the division are correctly rounded
\* and the root is an integer or irrational, so the double result floors to
\* the exact value.
LargerRootFloor(a, b, num_target_params) ==
    LET d == Discriminant(a, b, num_target_params)
    IN  CHOOSE t \in 0..num_target_params :
            /\ (2 * a * t + b) * (2 * a * t + b) <= d
            /\ (2 * a * (t + 1) + b) * (2 * a * (t + 1) + b) > d

\* math.ceil((1-ratio)*r + ratio*r3), in doubles
Interpolate(q, r, r3) ==
    FixCeil(FloatAdd(FloatMulInt(FloatSub(Ratio10, q), r), FloatMulInt(q, r3)))

\* Linear: a, b, c = input, output, -num_target_params/2
LinearMaxRank(input, output) == LargerRootFloor(input, output, output * input)

\* Linear._calc_from_ratio(ratio, input, output)
LinearCalcFromRatio(q, input, output) ==
    Interpolate(q, MinRank(input, output), LinearMaxRank(input, output))

\* Conv2d: a, b, c = kernel_size**2, out_channels + in_channels, -num/2
ConvMaxRank(inc, outc, ks) ==
    LargerRootFloor(ks * ks, outc + inc, outc * inc * ks * ks)

\* Conv2d._calc_from_ratio()
ConvCalcFromRatio(q, inc, outc, ks) ==
    Interpolate(q, MinRank(inc, outc), ConvMaxRank(inc, outc, ks))

(***************************************************************************)
(* torch helpers                                                            *)
(***************************************************************************)
\* torch.empty(size=...) raises on a negative dimension, not on a zero one
TorchEmptyRaises(size) == \E i \in 1..Len(size) : size[i] < 0

\* the sizes the operands of an einsum give label l
EinsumSizes(subscripts, shapes, l) ==
    {shapes[pl[1]][pl[2]] : pl \in
        {pl \in (1..Len(subscripts)) \X (1..4) :
            /\ pl[2] <= Len(subscripts[pl[1]])
            /\ subscripts[pl[1]][pl[2]] = l}}

\* the shape torch.einsum gives: every output label takes the size the
\* operands give that label
EinsumShape(subscripts, shapes, output) ==
    [i \in 1..Len(output) |->
        CHOOSE v \in EinsumSizes(subscripts, shapes, output[i]) : TRUE]

(***************************************************************************)
(* Linear / LowRankNN and Conv2d / LowRank                                   *)
(***************************************************************************)
\* a layer is about to be built from positive dimensions and a ratio in [0,1]
LayerInit ==
    /\ layer \in {"Linear", "Conv2d"}
    /\ in_channels \in 1..MaxDim
    /\ out_channels \in 1..MaxDim
    /\ kernel_size \in (IF layer = "Linear" THEN {1} ELSE 1..MaxKernel)
    /\ ratio \in Ratios
    /\ low_rank = 0 /\ W1 = <<>> /\ weight = <<>>
    /\ lpc = "call"
    /\ PartitionIdle /\ ModelIdle /\ ClientIdle /\ LoadIdle

\* LowRankNN.__init__: X is (input, rank), Y is (output, rank)
\* (kaiming_normal_ leaves a zero-element tensor as it is)
LowRankNNInit(input, output, rank) ==
    [X |-> <<input, rank>>, Y |-> <<output, rank>>]

\* LowRank.__init__: T is (r, r, k, k), X is (r, out), Y is (r, in)
LowRankInit(inc, outc, rank, ks) ==
    [T |-> <<rank, rank, ks, ks>>, X |-> <<rank, outc>>, Y |-> <<rank, inc>>]

\* Linear.__init__
LinearInit ==
    /\ lpc = "call" /\ layer = "Linear"
    /\ LET rank == LinearCalcFromRatio(ratio, in_channels, out_channels)
           w1   == LowRankNNInit(in_channels, out_channels, rank)
       IN  /\ low_rank' = rank
           /\ IF TorchEmptyRaises(w1.X) \/ TorchEmptyRaises(w1.Y)
              THEN lpc' = "error" /\ W1' = <<>>
              ELSE lpc' = "constructed" /\ W1' = w1
    /\ UNCHANGED <<layer, in_channels, out_channels, kernel_size, ratio,
                   weight>>
    /\ UNCHANGED notLayerVars

\* Conv2d.__init__
Conv2dInit ==
    /\ lpc = "call" /\ layer = "Conv2d"
    /\ LET rank == ConvCalcFromRatio(ratio, in_channels, out_channels,
                                     kernel_size)
           w1   == LowRankInit(in_channels, out_channels, rank, kernel_size)
       IN  /\ low_rank' = rank
           /\ IF \/ TorchEmptyRaises(w1.T)
                 \/ TorchEmptyRaises(w1.X)
                 \/ TorchEmptyRaises(w1.Y)
              THEN lpc' = "error" /\ W1' = <<>>
              ELSE lpc' = "constructed" /\ W1' = w1
    /\ UNCHANGED <<layer, in_channels, out_channels, kernel_size, ratio,
                   weight>>
    /\ UNCHANGED notLayerVars

\* LowRankNN.forward: torch.einsum("xr,yr->xy", self.X, self.Y)
LowRankNNForward(w) ==
    EinsumShape(<< <<"x", "r">>, <<"y", "r">> >>, <<w.X, w.Y>>, <<"x", "y">>)

\* LowRank.forward: torch.einsum("xyzw,xo,yi->oizw", self.T, self.X, self.Y)
LowRankForward(w) ==
    EinsumShape(<< <<"x", "y", "z", "w">>, <<"x", "o">>, <<"y", "i">> >>,
                <<w.T, w.X, w.Y>>, <<"o", "i", "z", "w">>)

\* Linear.forward on a batch of in_channels features: F.linear(x, w, bias)
\* needs w of shape (out_features, in_features) and the bias of w's rows
LinearForward ==
    /\ lpc = "constructed" /\ layer = "Linear"
    /\ LET w == LowRankNNForward(W1)
       IN  /\ weight' = w
           /\ lpc' = IF w[2] = in_channels /\ w[1] = out_channels
                     THEN "forward_ok" ELSE "forward_error"
    /\ UNCHANGED <<layer, in_channels, out_channels, kernel_size, ratio,
                   low_rank, W1>>
    /\ UNCHANGED notLayerVars

\* Conv2d.forward on in_channels planes: F.conv2d needs a weight of shape
\* (out_channels, in_channels, kH, kW)
Conv2dForward ==
    /\ lpc = "constructed" /\ layer = "Conv2d"
    /\ LET w == LowRankForward(W1)
       IN  /\ weight' = w
           /\ lpc' = IF w[2] = in_channels
                     THEN "forward_ok" ELSE "forward_error"
    /\ UNCHANGED <<layer, in_channels, out_channels, kernel_size, ratio,
                   low_rank, W1>>
    /\ UNCHANGED notLayerVars

LayerNext ==
    \/ LinearInit
    \/ Conv2dInit
    \/ LinearForward
    \/ Conv2dForward

SpecLayer == LayerInit /\ [][LayerNext]_vars

(***************************************************************************)
(* Properties of the layers                                                 *)
(***************************************************************************)
\* _calc_from_ratio has returned
RankComputed == lpc \notin {"idle", "call"}

\* r_min of the layer
LayerMinRank == MinRank(in_channels, out_channels)

\* r_max of the layer: the floored larger root of its quadratic
LayerMaxRank ==
    IF layer = "Linear" THEN LinearMaxRank(in_channels, out_channels)
    ELSE ConvMaxRank(in_channels, out_channels, kernel_size)

\* the rank the layer would get with ratio q
LayerRankAt(q) ==
    IF layer = "Linear" THEN LinearCalcFromRatio(q, in_channels, out_channels)
    ELSE ConvCalcFromRatio(q, in_channels, out_channels, kernel_size)

\* C5: for positive dimensions and a ratio in [0,1] the rank returned by
\* _calc_from_ratio lies between r_min and r_max and is a positive integer.
C5_RankWithinBounds ==
    RankComputed =>
        /\ LayerMinRank <= low_rank
        /\ low_rank <= LayerMaxRank
        /\ low_rank >= 1

\* C6: for fixed dimensions the rank is monotonic non-decreasing in the
\* ratio: no larger ratio gives a smaller rank than the one computed.
C6_RankMonotone ==
    RankComputed =>
        \A q \in Ratios : FixLeq(ratio, q) => low_rank <= LayerRankAt(q)

\* C7: the weight reconstructed from one factor pair has the shape
\* (dim_out, dim_in) in the linear layer and (out_channels, in_channels, k, k)
\* in the convolution layer.
C7_ReconstructedShape ==
    lpc \in {"forward_ok", "forward_error"} =>
        weight = IF layer = "Linear" THEN <<out_channels, in_channels>>
                 ELSE <<out_channels, in_channels, kernel_size, kernel_size>>

\* C9: a layer whose computed rank is below 1 is not constructed: the
\* construction ends in an error.
C9_DegenerateRankFails ==
    (RankComputed /\ low_rank < 1) => lpc = "error"

(***************************************************************************)
(* The number of learnable factor values of a layer                         *)
(***************************************************************************)
\* layers of dimensions up to MaxCountDim at the two ends of the ratio range
LayerSizeInit ==
    /\ layer \in {"Linear", "Conv2d"}
    /\ in_channels \in 1..MaxCountDim
    /\ out_channels \in 1..MaxCountDim
    /\ kernel_size \in (IF layer = "Linear" THEN {1} ELSE 1..MaxKernel)
    /\ ratio \in {Ratio00, Ratio10}
    /\ low_rank = 0 /\ W1 = <<>> /\ weight = <<>>
    /\ lpc = "call"
    /\ PartitionIdle /\ ModelIdle /\ ClientIdle /\ LoadIdle

SpecLayerSize == LayerSizeInit /\ [][LayerNext]_vars

\* torch.Tensor.numel() of a tensor of the given shape
Numel(shape) ==
    IF Len(shape) = 2 THEN shape[1] * shape[2]
    ELSE shape[1] * shape[2] * shape[3] * shape[4]

\* the values of one factor set: X and Y, and T in a convolution
BranchCount(w) ==
    IF layer = "Linear" THEN Numel(w.X) + Numel(w.Y)
    ELSE Numel(w.T) + Numel(w.X) + Numel(w.Y)

\* the values of both factor sets: w2 / W2 is built with the arguments of
\* w1 / W1
FactorCount == 2 * BranchCount(W1)

\* the values of the dense weight the layer stands for
DenseCount == in_channels * out_channels * kernel_size * kernel_size

\* the layer was built
LayerBuilt == lpc \in {"constructed", "forward_ok", "forward_error"}

\* C12 as stated: at ratio 0 the factors never hold more values than the
\* dense weight, whatever the dimensions.
C12_MinRankCountAllDims ==
    (LayerBuilt /\ ratio = Ratio00) => FactorCount <= DenseCount

\* C12, amended: at ratio 0 the factors hold no more values than the dense
\* weight when the smaller dimension is at least 20 (Linear) or 27 (Conv2d).
C12_MinRankCountLargeDims ==
    (/\ LayerBuilt /\ ratio = Ratio00
     /\ Min2(in_channels, out_channels) >=
            (IF layer = "Linear" THEN 20 ELSE 27)) =>
        FactorCount <= DenseCount

\* a 27 x 28 convolution of kernel 1 built at ratio 0 with rank 6
C12_Witness ==
    /\ LayerBuilt /\ layer = "Conv2d" /\ ratio = Ratio00
    /\ in_channels = 27 /\ out_channels = 28 /\ kernel_size = 1
    /\ low_rank = 6 /\ FactorCount = 732 /\ DenseCount = 756

\* C13 as stated: at ratio 1 the factors hold at most half the values of
\* the dense weight.
C13_MaxRankCountWithinHalf ==
    (LayerBuilt /\ ratio = Ratio10) => 2 * FactorCount <= DenseCount

\* C13, amended: at ratio 1 each of the two factor sets holds at most half
\* the values of the dense weight, so both together hold at most as many as
\* the dense weight.
C13_MaxRankCountWithinDense ==
    (LayerBuilt /\ ratio = Ratio10) =>
        /\ 2 * BranchCount(W1) <= DenseCount
        /\ FactorCount <= DenseCount

\* a 6 x 6 convolution of kernel 3 built at ratio 1 with rank 3: 234 values
\* for a dense weight of 324
C13_Witness ==
    /\ LayerBuilt /\ layer = "Conv2d" /\ ratio = Ratio10
    /\ in_channels = 6 /\ out_channels = 6 /\ kernel_size = 3
    /\ low_rank = 3 /\ FactorCount = 234 /\ DenseCount = 324

\* compute_rank(dim_in, dim_out, ratio, kernel_size) as documented: the
\* quadratic has a = kernel_size^2, b = dim_in + dim_out and
\* c = -dim_in * dim_out * kernel_size^2 / 2
ComputeRank(dim_in, dim_out, q, ks) ==
    Interpolate(q, MinRank(dim_in, dim_out),
                LargerRootFloor(ks * ks, dim_in + dim_out,
                                dim_in * dim_out * ks * ks))

\* C14: the rank a layer computes is compute_rank of its dimensions, with
\* kernel_size 1 for a linear layer.
C14_OneComputeRank ==
    RankComputed =>
        low_rank = ComputeRank(in_channels, out_channels, ratio,
                               IF layer = "Linear" THEN 1 ELSE kernel_size)

(***************************************************************************)
(* FC and VGG                                                               *)
(***************************************************************************)
\* init.kaiming_normal_(..., nonlinearity=activation) after the renaming of
\* "leakyrelu": calculate_gain raises on a nonlinearity it does not know
KaimingRaises(act) == act \notin {"relu", "leaky_relu", "leakyrelu"}

\* the list handed to _make_layers; 0 stands for "M"
VggCfg == <<64, 64, 0, 128, 128, 0, 256, 256, 256, 0,
            512, 512, 512, 0, 512, 512, 512, 0>>

RECURSIVE MakeLayers(_, _, _)
\* _make_layers: nn.Conv2d(in_channels, v, kernel_size=3, padding=1) for every
\* number v of cfg[i..], in_channels being the number before it
MakeLayers(cfg, i, inc) ==
    IF i > Len(cfg) THEN <<>>
    ELSE IF cfg[i] = 0 THEN MakeLayers(cfg, i + 1, inc)
    ELSE <<[type |-> "nn.Conv2d", in_channels |-> inc,
            out_channels |-> cfg[i], kernel_size |-> 3,
            init |-> "default"]>> \o MakeLayers(cfg, i + 1, cfg[i])

\* _init_weights on one convolution of features
InitWeights(module, ctype, q) ==
    IF ctype = "lowrank"
    THEN [type |-> "Conv2d", in_channels |-> module.in_channels,
          out_channels |-> module.out_channels,
          kernel_size |-> module.kernel_size,
          low_rank |-> ConvCalcFromRatio(q, module.in_channels,
                                         module.out_channels,
                                         module.kernel_size)]
    ELSE IF ctype = "standard"
    THEN [module EXCEPT !.init = "normal"]
    ELSE module

ModeStrings == {"standard", "lowrank", "fullrank"}

Activations == {"relu", "leaky_relu", "gelu"}

\* a model is about to be built
ModelInit ==
    /\ arch \in {"FC", "VGG"}
    /\ input_size = (IF arch = "FC" THEN MaxDim ELSE 0)
    /\ hidden_size \in (IF arch = "FC" THEN 1..MaxDim ELSE {0})
    /\ num_classes \in 1..MaxDim
    /\ model_ratio \in Ratios
    /\ param_type \in (IF arch = "FC" THEN ModeStrings ELSE {""})
    /\ conv_type \in (IF arch = "VGG" THEN ModeStrings ELSE {""})
    /\ activation \in Activations
    /\ method = "unset"
    /\ modules = <<>> /\ per_result = "" /\ mpc = "call"
    /\ PartitionIdle /\ LayerIdle /\ ClientIdle /\ LoadIdle

\* FC.__init__
FCInit ==
    /\ mpc = "call" /\ arch = "FC"
    /\ IF param_type = "standard"
       THEN /\ modules' = [fc1 |-> [type |-> "nn.Linear"],
                           fc2 |-> [type |-> "nn.Linear"]]
            /\ mpc' = "constructed"
       ELSE IF param_type = "lowrank"
       THEN IF KaimingRaises(activation)
            THEN modules' = <<>> /\ mpc' = "error"
            ELSE /\ modules' =
                       [fc1 |-> [type |-> "Linear",
                                 rank |-> LinearCalcFromRatio(
                                     model_ratio, input_size, hidden_size)],
                        fc2 |-> [type |-> "Linear",
                                 rank |-> LinearCalcFromRatio(
                                     model_ratio, hidden_size, num_classes)]]
                 /\ mpc' = "constructed"
       ELSE modules' = <<>> /\ mpc' = "error"
    /\ UNCHANGED <<arch, input_size, hidden_size, num_classes, model_ratio,
                   param_type, conv_type, activation, method, per_result>>
    /\ UNCHANGED notModelVars

\* VGG.__init__: self.activation is set for "relu" and "leaky_relu" only and
\* _make_layers reads it; _init_weights has no branch for other conv types
VGGInit ==
    /\ mpc = "call" /\ arch = "VGG"
    /\ IF activation \notin {"relu", "leaky_relu"}
       THEN modules' = <<>> /\ mpc' = "error"
       ELSE LET features == MakeLayers(VggCfg, 1, 3)
            IN  /\ modules' = [i \in 1..Len(features) |->
                                  InitWeights(features[i], conv_type,
                                              model_ratio)]
                /\ mpc' = "constructed"
    /\ UNCHANGED <<arch, input_size, hidden_size, num_classes, model_ratio,
                   param_type, conv_type, activation, method, per_result>>
    /\ UNCHANGED notModelVars

\* FC.per_param
PerParam ==
    /\ mpc = "constructed" /\ arch = "FC"
    /\ per_result' =
          IF method = "unset" THEN "AttributeError"
          ELSE IF method \in {"pfedpara", "fedper"}
          THEN IF modules.fc2.type = "Linear" THEN "params"
               ELSE "AttributeError"
          ELSE "ValueError"
    /\ mpc' = "accessed"
    /\ UNCHANGED <<arch, input_size, hidden_size, num_classes, model_ratio,
                   param_type, conv_type, activation, method, modules>>
    /\ UNCHANGED notModelVars

ModelNext ==
    \/ FCInit
    \/ VGGInit
    \/ PerParam

SpecModel == ModelInit /\ [][ModelNext]_vars

\* C10: a model built with an unknown mode string is rejected at
\* construction: no constructed FC carries a param_type other than
\* standard/lowrank, no constructed VGG a conv_type other than
\* lowrank/standard, and no constructed model a personalization method other
\* than pfedpara/fedper (the constructors take no method; the attribute
\* stays unset).
C10_UnknownModeRejected ==
    mpc \in {"constructed", "accessed"} =>
        /\ arch = "FC" => param_type \in {"standard", "lowrank"}
        /\ arch = "VGG" => conv_type \in {"lowrank", "standard"}
        /\ method \in {"unset", "pfedpara", "fedper"}

(***************************************************************************)
(* client.py: gen_client_fn, FedParaClient, PFedParaClient                  *)
(***************************************************************************)
Cids == Range0(NumClients)

\* keys of net.state_dict(): a w1 factor of the first layer and a w2 factor
\* of the last layer
StateDictKeys == {"fc1.w1.X", "fc2.w2.X"}

\* the values a state_dict can hold
StateDicts == [StateDictKeys -> 0..MaxVal]

\* the personalized parameters of FC.per_param: the w1 factors under
\* pfedpara, the last layer under fedper
PersonalKeys(alg) ==
    IF alg = "pfedpara" THEN {"fc1.w1.X"}
    ELSE IF alg = "fedper" THEN {"fc2.w2.X"}
    ELSE {}

\* get_parameters: every value of net.state_dict()
GetParameters(state_dict) == state_dict

\* _set_parameters: zip(state_dict.keys(), parameters), load_state_dict
\* with strict=True: every key of the net is overwritten
SetParameters(state_dict, parameters) ==
    [key \in DOMAIN state_dict |-> parameters[key]]

\* the driver starts with an algorithm and some initial global parameters
ClientInit ==
    /\ algorithm \in {"pfedpara", "fedper", "fedpara"}
    /\ server_params \in StateDicts
    /\ client = [cid \in Cids |-> "none"]
    /\ net = [cid \in Cids |-> <<>>]
    /\ sent = [cid \in Cids |-> <<>>]
    /\ local_end = [cid \in Cids |-> <<>>]
    /\ last_call = [cid \in Cids |-> "none"]
    /\ PartitionIdle /\ LayerIdle /\ ModelIdle /\ LoadIdle

\* client_fn(cid): a new client around a freshly instantiated net
ClientFn(cid) ==
    /\ client' = [client EXCEPT ![cid] =
                     IF algorithm = "pfedpara" \/ algorithm = "fedper"
                     THEN "PFedParaClient" ELSE "FedParaClient"]
    /\ \E fresh \in StateDicts : net' = [net EXCEPT ![cid] = fresh]
    /\ last_call' = [last_call EXCEPT ![cid] = "client_fn"]
    /\ UNCHANGED <<algorithm, server_params, sent, local_end>>
    /\ UNCHANGED notClientVars

\* fit(parameters, config) of either client class, parameters being the
\* aggregator's: set, train, return get_parameters
Fit(cid) ==
    /\ client[cid] # "none"
    /\ \E trained \in StateDicts :
          LET loaded == SetParameters(net[cid], server_params)
          IN  /\ loaded \in StateDicts
              /\ net' = [net EXCEPT ![cid] = trained]
              /\ sent' = [sent EXCEPT ![cid] = GetParameters(trained)]
              /\ local_end' = [local_end EXCEPT ![cid] = trained]
    /\ last_call' = [last_call EXCEPT ![cid] = "fit"]
    /\ UNCHANGED <<algorithm, server_params, client>>
    /\ UNCHANGED notClientVars

\* PFedParaClient.evaluate(parameters, config): set, then train.test, an
\* attribute the function train does not have
Evaluate(cid) ==
    /\ client[cid] = "PFedParaClient"
    /\ net' = [net EXCEPT ![cid] = SetParameters(net[cid], server_params)]
    /\ last_call' = [last_call EXCEPT ![cid] = "evaluate: AttributeError"]
    /\ UNCHANGED <<algorithm, server_params, client, sent, local_end>>
    /\ UNCHANGED notClientVars

\* the aggregator averages what the clients returned, key by key, and pushes
\* the result in the next round
Aggregate ==
    /\ \A cid \in Cids : sent[cid] # <<>>
    /\ \E avg \in StateDicts :
          /\ \A key \in StateDictKeys :
                /\ \E cid \in Cids : sent[cid][key] <= avg[key]
                /\ \E cid \in Cids : sent[cid][key] >= avg[key]
          /\ server_params' = avg
    /\ UNCHANGED <<algorithm, client, net, sent, local_end, last_call>>
    /\ UNCHANGED notClientVars

ClientNext ==
    \/ \E cid \in Cids : ClientFn(cid)
    \/ \E cid \in Cids : Fit(cid)
    \/ \E cid \in Cids : Evaluate(cid)
    \/ Aggregate

SpecClient == ClientInit /\ [][ClientNext]_vars

\* C8: under pfedpara and fedper a client's personalized parameters are not
\* among the parameters fit returns to the aggregator, and the client's net
\* holds, whenever it exists after the client's first round, the personalized
\* values it had when its last fit ended.
C8_PersonalParamsStayLocal ==
    algorithm \in {"pfedpara", "fedper"} =>
        \A cid \in Cids :
            /\ sent[cid] # <<>> =>
                  DOMAIN sent[cid] \cap PersonalKeys(algorithm) = {}
            /\ (local_end[cid] # <<>> /\ net[cid] # <<>>) =>
                  \A key \in PersonalKeys(algorithm) :
                      net[cid][key] = local_end[cid][key]

====
